---- MODULE Spec2Model ----
(***************************************************************************)
(* Model of the control logic of Recall's Qt client:                       *)
(*   - ServerManager   (src/unnamed/part_013, lines 746-992): supervisor   *)
(*     of the worker process, health probing, shutdown protocol;           *)
(*   - CreateDeckDialog (src/createdeckdialog.cpp): upload, job status     *)
(*     polling, user prompts and the dialog state machine.                 *)
(* Everything runs on one Qt event loop.  A slot runs to completion unless *)
(* it blocks in QProcess::waitFor... (only the process' own notifications  *)
(* are delivered) or opens a QMessageBox (a nested event loop: timers and  *)
(* network replies are delivered, the user can only answer the box).       *)
(***************************************************************************)
EXTENDS Integers, Sequences, FiniteSets, TLC

(***************************************************************************)
(* Bounds of the model (not program constants).                            *)
(***************************************************************************)
\* health probes that may be outstanding at once (checkServerHealth has no
\* in-flight guard; with the default 10 s interval and 5 s abort it is 1)
MaxProbes == 2

(***************************************************************************)
(* Program constants.                                                      *)
(***************************************************************************)
maxRetries == 30

(***************************************************************************)
(* ServerManager state.                                                    *)
(***************************************************************************)
VARIABLES
    serverState,     \* ServerManager::currentState
    retryCount,      \* ServerManager::retryCount
    serverProcess,   \* "null", or the QProcess::state() of the handle
    healthTimer,     \* healthCheckTimer->isActive()
    probes,          \* health-probe replies in flight
    stopPc,          \* position inside stopServer(): idle, wait1, wait2
    emitted,         \* signals emitted by the last step, in order
    smCall,          \* the operation the last step ran
    termSent,        \* terminate() calls made on the current handle
    killSent,        \* kill() calls made on the current handle
    readyCount,      \* serverReady emissions since the last launch
    failedStarting,  \* failed probe replies handled in Starting since launch
    prevState        \* serverState before the last step

smVars == <<serverState, retryCount, serverProcess, healthTimer, probes,
            stopPc, emitted, smCall, termSent, killSent, readyCount,
            failedStarting, prevState>>

ServerStates == {"Stopped", "Starting", "Running", "Stopping", "Error"}

Sig(name, arg) == [sig |-> name, arg |-> arg]

\* the fields the slots of ServerManager read and write, as one record
SM == [state |-> serverState, retry |-> retryCount, proc |-> serverProcess,
       timer |-> healthTimer, out |-> <<>>]

setState(s, newState) ==
    IF s.state # newState
    THEN [s EXCEPT !.state = newState,
                   !.out = Append(@, Sig("stateChanged", newState))]
    ELSE s

emit(s, name, arg) == [s EXCEPT !.out = Append(@, Sig(name, arg))]

cleanupProcess(s) == IF s.proc # "null" THEN [s EXCEPT !.proc = "null"] ELSE s

onProcessStarted(s) == [s EXCEPT !.timer = TRUE, !.proc = "Running"]

\* mutant: an exit is counted against the retry budget like a failed probe
onProcessFinished_CountsRetry(s) ==
    LET s1 == [s EXCEPT !.timer = FALSE, !.proc = "NotRunning",
                        !.retry = @ + 1]
    IN IF s1.state = "Stopping"
       THEN setState(s1, "Stopped")
       ELSE emit(setState(s1, "Error"), "serverError",
                 "Server process exited unexpectedly")

onProcessFinished(s) ==
    LET s1 == [s EXCEPT !.timer = FALSE, !.proc = "NotRunning"]
    IN IF s1.state = "Stopping"
       THEN setState(s1, "Stopped")
       ELSE emit(setState(s1, "Error"), "serverError",
                 "Server process exited unexpectedly")

ProcessErrorString(error) ==
    CASE error = "FailedToStart" -> "Failed to start server process"
      [] error = "Crashed"       -> "Server process crashed"
      [] error = "Timedout"      -> "Server process timed out"
      [] OTHER                   -> "Unknown server process error"

onProcessError(s, error) ==
    emit(setState(s, "Error"), "serverError", ProcessErrorString(error))

\* QProcess reports the end of the worker: errorOccurred(Crashed) first when
\* the exit status is CrashExit (killed by a signal / TerminateProcess),
\* then finished().  Both slots run synchronously, in this order.
processDied(s, crashed) ==
    onProcessFinished(IF crashed THEN onProcessError(s, "Crashed") ELSE s)

\* mutant: the retry budget is compared with > instead of >=
onHealthCheckReplyBody_OffByOne(s, ok) ==
    IF ok
    THEN IF s.state = "Starting"
         THEN emit([setState(s, "Running") EXCEPT !.timer = FALSE],
                   "serverReady", "")
         ELSE s
    ELSE LET s1 == [s EXCEPT !.retry = @ + 1]
         IN IF s1.retry > maxRetries
            THEN emit(setState([s1 EXCEPT !.timer = FALSE], "Error"),
                      "serverError",
                      "Server failed to start within timeout period")
            ELSE s1

\* mutant: a successful probe announces readiness whatever the state
onHealthCheckReplyBody_AnyState(s, ok) ==
    IF ok
    THEN emit([setState(s, "Running") EXCEPT !.timer = FALSE],
              "serverReady", "")
    ELSE LET s1 == [s EXCEPT !.retry = @ + 1]
         IN IF s1.retry >= maxRetries
            THEN emit(setState([s1 EXCEPT !.timer = FALSE], "Error"),
                      "serverError",
                      "Server failed to start within timeout period")
            ELSE s1

onHealthCheckReplyBody(s, ok) ==
    IF ok
    THEN IF s.state = "Starting"
         THEN emit([setState(s, "Running") EXCEPT !.timer = FALSE],
                   "serverReady", "")
         ELSE s
    ELSE LET s1 == [s EXCEPT !.retry = @ + 1]
         IN IF s1.retry >= maxRetries
            THEN emit(setState([s1 EXCEPT !.timer = FALSE], "Error"),
                      "serverError",
                      "Server failed to start within timeout period")
            ELSE s1

\* mutant: a restart keeps the retry count of the previous run
startServerBody_KeepsRetry(s, launched) ==
    LET s1 == setState(s, "Starting")
        s2 == [cleanupProcess(s1) EXCEPT !.proc = "Starting"]
    IN IF launched
       THEN onProcessStarted(s2)
       ELSE emit(setState([onProcessError(s2, "FailedToStart")
                              EXCEPT !.proc = "NotRunning"], "Error"),
                 "serverError", "Failed to start server process")

\* mutant: the health timer is armed although the launch failed
startServerBody_ProbesAnyway(s, launched) ==
    LET s1 == [setState(s, "Starting") EXCEPT !.retry = 0]
        s2 == [cleanupProcess(s1) EXCEPT !.proc = "Starting"]
    IN IF launched
       THEN onProcessStarted(s2)
       ELSE emit(setState([onProcessError(s2, "FailedToStart")
                              EXCEPT !.proc = "NotRunning", !.timer = TRUE],
                          "Error"),
                 "serverError", "Failed to start server process")

\* startServer() past its guard; launched = result of waitForStarted(5000)
startServerBody(s, launched) ==
    LET s1 == [setState(s, "Starting") EXCEPT !.retry = 0]
        s2 == [cleanupProcess(s1) EXCEPT !.proc = "Starting"]
    IN IF launched
       THEN onProcessStarted(s2)
       ELSE emit(setState([onProcessError(s2, "FailedToStart")
                              EXCEPT !.proc = "NotRunning"], "Error"),
                 "serverError", "Failed to start server process")

\* mutant: stopServer() leaves the health timer running
stopServerBegin_KeepsProbing(s) ==
    LET s1 == setState(s, "Stopping")
    IN IF s1.proc # "null" /\ s1.proc # "NotRunning"
       THEN s1
       ELSE setState(cleanupProcess(s1), "Stopped")

\* stopServer() from its guard to the first wait (or to the end when there
\* is no running process)
stopServerBegin(s) ==
    LET s1 == [setState(s, "Stopping") EXCEPT !.timer = FALSE]
    IN IF s1.proc # "null" /\ s1.proc # "NotRunning"
       THEN s1
       ELSE setState(cleanupProcess(s1), "Stopped")

\* mutant: the tail of stopServer() relies on onProcessFinished for Stopped
stopServerEnd_NoFinalState(s) == cleanupProcess(s)

\* the tail of stopServer(): cleanupProcess(); setState(Stopped)
stopServerEnd(s) == setState(cleanupProcess(s), "Stopped")

Commit(s, call) ==
    /\ serverState' = s.state
    /\ retryCount' = s.retry
    /\ serverProcess' = s.proc
    /\ healthTimer' = s.timer
    /\ emitted' = s.out
    /\ smCall' = call
    /\ prevState' = serverState

SMInit ==
    /\ serverState = "Stopped"
    /\ retryCount = 0
    /\ serverProcess = "null"
    /\ healthTimer = FALSE
    /\ probes = 0
    /\ stopPc = "idle"
    /\ emitted = <<>>
    /\ smCall = "none"
    /\ termSent = 0
    /\ killSent = 0
    /\ readyCount = 0
    /\ failedStarting = 0
    /\ prevState = "Stopped"

\* ---- operations ------------------------------------------------------
startServer ==
    /\ stopPc = "idle"
    /\ IF serverState \in {"Starting", "Running"}
       THEN /\ Commit(SM, "startServer")
            /\ UNCHANGED <<probes, stopPc, termSent, killSent, readyCount,
                           failedStarting>>
       ELSE \E launched \in BOOLEAN :
            /\ Commit(startServerBody(SM, launched), "startServer")
            /\ termSent' = 0
            /\ killSent' = 0
            /\ readyCount' = 0
            /\ failedStarting' = 0
            /\ UNCHANGED <<probes, stopPc>>

\* mutant: stopServer() without its early return
stopServer_NoGuard ==
    /\ stopPc = "idle"
    /\ LET s == stopServerBegin(SM)
           signalled == SM.proc \in {"Starting", "Running"}
       IN /\ Commit(s, "stopServer")
          /\ stopPc' = IF signalled THEN "wait1" ELSE "idle"
          /\ termSent' = IF signalled THEN termSent + 1 ELSE termSent
    /\ UNCHANGED <<probes, killSent, readyCount, failedStarting>>

stopServer ==
    IF serverState \in {"Stopped", "Stopping"}
    THEN /\ Commit(SM, "stopServer")
         /\ UNCHANGED <<probes, stopPc, termSent, killSent, readyCount,
                        failedStarting>>
    ELSE /\ stopPc = "idle"
         /\ LET s == stopServerBegin(SM)
                signalled == SM.proc \in {"Starting", "Running"}
            IN /\ Commit(s, "stopServer")
               /\ stopPc' = IF signalled THEN "wait1" ELSE "idle"
               /\ termSent' = IF signalled THEN termSent + 1 ELSE termSent
         /\ UNCHANGED <<probes, killSent, readyCount, failedStarting>>

\* the worker exits during waitForFinished(10000) or waitForFinished(3000)
stopWaitExit ==
    /\ stopPc \in {"wait1", "wait2"}
    /\ \E crashed \in BOOLEAN :
          Commit(stopServerEnd(processDied(SM, crashed)), "stopWaitExit")
    /\ stopPc' = "idle"
    /\ UNCHANGED <<probes, termSent, killSent, readyCount, failedStarting>>

\* waitForFinished(10000) returned false: kill()
stopTimeout1 ==
    /\ stopPc = "wait1"
    /\ Commit(SM, "stopTimeout1")
    /\ killSent' = killSent + 1
    /\ stopPc' = "wait2"
    /\ UNCHANGED <<probes, termSent, readyCount, failedStarting>>

\* waitForFinished(3000) returned false as well
stopTimeout2 ==
    /\ stopPc = "wait2"
    /\ Commit(stopServerEnd(SM), "stopTimeout2")
    /\ stopPc' = "idle"
    /\ UNCHANGED <<probes, termSent, killSent, readyCount, failedStarting>>

\* healthCheckTimer timeout -> checkServerHealth()
checkServerHealth ==
    /\ stopPc = "idle"
    /\ healthTimer
    /\ IF serverState \in {"Starting", "Running"}
       THEN /\ probes < MaxProbes
            /\ probes' = probes + 1
            /\ Commit(SM, "checkServerHealth")
       ELSE /\ probes' = probes
            /\ Commit(SM, "checkServerHealth")
    /\ UNCHANGED <<stopPc, termSent, killSent, readyCount, failedStarting>>

onHealthCheckReply ==
    /\ stopPc = "idle"
    /\ probes > 0
    /\ probes' = probes - 1
    /\ \E ok \in BOOLEAN :
         LET s == onHealthCheckReplyBody(SM, ok)
         IN /\ Commit(s, IF ok THEN "replyOk" ELSE "replyFail")
            /\ readyCount' = readyCount +
                  Len(SelectSeq(s.out, LAMBDA e : e.sig = "serverReady"))
            /\ failedStarting' =
                  IF ~ok /\ serverState = "Starting"
                  THEN failedStarting + 1 ELSE failedStarting
    /\ UNCHANGED <<stopPc, termSent, killSent>>

\* the worker exits while the event loop is running
processExit ==
    /\ stopPc = "idle"
    /\ serverProcess = "Running"
    /\ \E crashed \in BOOLEAN : Commit(processDied(SM, crashed), "processExit")
    /\ UNCHANGED <<probes, stopPc, termSent, killSent, readyCount,
                   failedStarting>>

SMNext ==
    \/ startServer
    \/ stopServer
    \/ stopWaitExit
    \/ stopTimeout1
    \/ stopTimeout2
    \/ checkServerHealth
    \/ onHealthCheckReply
    \/ processExit



(***************************************************************************)
(* CreateDeckDialog (src/createdeckdialog.cpp).                            *)
(*                                                                         *)
(* QNetworkReply::abort() on a running reply emits finished() before it    *)
(* returns, so the slot connected to finished() runs inside abort().       *)
(* The QMessageBox questions of the cancel button and of                   *)
(* onStatusCheckFinished are positions a slot can be suspended at; the     *)
(* purely informative boxes are passed in the same step.  Calling          *)
(* deleteLater() through a null pointer is undefined behaviour: the step   *)
(* records it and the program either carries on or crashes.                *)
(***************************************************************************)
\* status requests the model lets one job receive (pollingCounter cap)
MaxPolls == 62

\* uploads (Create Deck clicks that pass the checks) per dialog instance
MaxJobs == 2

\* the same for SpecDlgDeep, where a case needs three jobs
MaxJobsDeep == 3

basePollingInterval == 2000
maxPollingInterval == 10000
AdaptThreshold == 10
NoteThreshold == 15
BackgroundThreshold == 60
BackgroundResetTo == 40
ErrorPromptThreshold == 10
ErrorResetTo == 4

VARIABLES
    dialogState,            \* CreateDeckDialog::currentState
    currentReply,           \* upload reply pointer: "null" or "pending"
    statusReply,            \* "null", "pending" (request running) or
                            \* "finished" (non-null, reply has finished)
    reqs,                   \* the status requests in flight: "current" if
                            \* issued for the deck id held now, else "stale"
    statusTimer,            \* statusTimer->isActive()
    timerInterval,          \* statusTimer->interval()
    deckId,                 \* 0 = empty string, 1 = the id the worker
                            \* returned for the latest accepted upload
    processingComplete,
    pollingCounter,
    consecutiveErrorCount,
    backgroundModeOffered,
    currentPollingInterval,
    controlsEnabled,        \* titleEdit, fileListWidget, add, remove
    createEnabled,          \* createDeckButton->isEnabled()
    hasTitle,               \* !titleEdit->text().trimmed().isEmpty()
    hasFiles,               \* fileListWidget->count() > 0
    cancelConfirm,          \* the "Cancel Processing" question is open
    handlerPrompt,          \* question onStatusCheckFinished is waiting at
    dialogResult,           \* "none", "accepted", "rejected"
    life,                   \* "open", "closed" (exec() has returned),
                            \* "destroyed", "crashed"
    uploads,                \* uploads started so far
    nullDeref,              \* the last step called through a null pointer
    dlgCall,                \* the reply or answer the last step handled,
                            \* "-" for a timer tick or a plain UI event;
                            \* "cancelYesLate" = cancel confirmed after
                            \* the state had left Processing
    lastStatus,             \* status string handled by the last step
    terminalSeen,           \* a response for the job deckId names that
                            \* said complete or failed has been handled
    preProcessing,          \* the worker has not reported "processing" yet
                            \* for the newest job (until then it may
                            \* report "error")
    detached,               \* the user sent the job deckId names to the
                            \* background
    pollFailed              \* the handler of a failed status check has
                            \* run since polling was last started

dlgVars == <<dialogState, currentReply, statusReply, reqs, statusTimer,
             timerInterval, deckId, processingComplete, pollingCounter,
             consecutiveErrorCount, backgroundModeOffered,
             currentPollingInterval, controlsEnabled, createEnabled,
             hasTitle, hasFiles, cancelConfirm, handlerPrompt, dialogResult,
             life, uploads, nullDeref, dlgCall, lastStatus, terminalSeen,
             preProcessing, detached, pollFailed>>

DialogStates == {"Idle", "Processing", "Complete", "Error"}

\* status strings the server may report
Statuses == {"processing", "error", "complete", "COMPLETE", "failed",
             "Failed"}

\* the word that is neither "processing" nor a completion status; the
\* worker reports it, if at all, before the first "processing" of a job
OtherStatuses == {"error"}

\* the spellings of complete and failed among them
TerminalWords == {"complete", "COMPLETE", "failed", "Failed"}

\* QString::toLower on the strings above
toLower(s) ==
    CASE s = "COMPLETE"   -> "complete"
      [] s = "Failed"     -> "failed"
      [] OTHER            -> s

qMin(a, b) == IF a < b THEN a ELSE b

\* the member fields as one record; ub = a null pointer was dereferenced
D == [st |-> dialogState, cur |-> currentReply, sr |-> statusReply,
      reqs |-> reqs, timer |-> statusTimer, tint |-> timerInterval,
      deck |-> deckId, pcomp |-> processingComplete, pc |-> pollingCounter,
      cec |-> consecutiveErrorCount, bmo |-> backgroundModeOffered,
      cpi |-> currentPollingInterval, ctl |-> controlsEnabled,
      crt |-> createEnabled, title |-> hasTitle, files |-> hasFiles,
      cc |-> cancelConfirm, hp |-> handlerPrompt, res |-> dialogResult,
      ub |-> FALSE]

updateCreateButtonState(d) == [d EXCEPT !.crt = d.title /\ d.files]

enableControls(d, enabled) ==
    LET d1 == [d EXCEPT !.ctl = enabled]
    IN IF enabled /\ d1.st = "Idle"
       THEN updateCreateButtonState(d1)
       ELSE [d1 EXCEPT !.crt = FALSE]

updateUIForState(d) ==
    CASE d.st = "Idle"       -> enableControls(d, TRUE)
      [] d.st = "Processing" -> enableControls(d, FALSE)
      [] d.st = "Complete"   -> enableControls(d, FALSE)
      [] d.st = "Error"      -> enableControls(d, TRUE)

dlgSetState(d, newState) ==
    IF d.st = newState THEN d
    ELSE updateUIForState([d EXCEPT !.st = newState])

\* mutant: only the lower-case spellings count as completion
isCompletionStatus_CaseSensitive(status) ==
    status = "complete" \/ status = "failed"

\* mutant: "error" counts as a completion status too
isCompletionStatus_ErrorToo(status) ==
    \/ toLower(status) = "complete"
    \/ toLower(status) = "failed"
    \/ toLower(status) = "error"

isCompletionStatus(status) ==
    toLower(status) = "complete" \/ toLower(status) = "failed"

\* statusReply->deleteLater() (through a null pointer when there is no
\* reply) followed by statusReply = nullptr.  A reply deleted while its
\* request is running takes the request with it and never emits finished();
\* the deferred delete runs as soon as the slot is back in the event loop.
releaseStatusReply(d) ==
    CASE d.sr = "null"    -> [d EXCEPT !.ub = TRUE]
      [] d.sr = "pending" -> [d EXCEPT !.sr = "null",
                                       !.reqs = SubSeq(@, 1, Len(@) - 1)]
      [] OTHER            -> [d EXCEPT !.sr = "null"]

\* mutant: the backoff factor is consecutiveErrorCount, not 1 + it
errorTail_LinearBackoff(d) ==
    LET d1 == [d EXCEPT !.tint = qMin(maxPollingInterval,
                                   basePollingInterval * d.cec)]
    IN releaseStatusReply(d1)

\* the error branch of onStatusCheckFinished after the cancel question
\* (lines 748-764): the user declined, or the question was not asked
errorTail(d) ==
    LET d1 == [d EXCEPT !.tint = qMin(maxPollingInterval,
                                   basePollingInterval * (1 + d.cec))]
    IN releaseStatusReply(d1)

\* onStatusCheckFinished for a failed reply, run inside abort(): the
\* "Connection Issues" question, if it comes up, is answered by cancelYes
onStatusAborted(d, cancelYes) ==
    IF d.sr = "null" THEN d
    ELSE LET d1 == [d EXCEPT !.pc = @ + 1, !.cec = @ + 1, !.sr = "finished"]
         IN IF d1.cec > ErrorPromptThreshold
            THEN IF cancelYes
                 THEN dlgSetState(d1, "Error")
                 ELSE errorTail([d1 EXCEPT !.cec = ErrorResetTo])
            ELSE errorTail(d1)

stopStatusPolling(d, cancelYes) ==
    LET d1 == [d EXCEPT !.timer = FALSE]
        d2 == IF d1.sr = "null" THEN d1
              ELSE LET a == IF d1.sr = "pending"
                            THEN onStatusAborted(
                                   [d1 EXCEPT !.reqs =
                                      IF Len(@) > 0 THEN Tail(@) ELSE @],
                                   cancelYes)
                            ELSE d1
                   IN releaseStatusReply(a)
    IN [d2 EXCEPT !.cpi = basePollingInterval, !.pc = 0, !.cec = 0]

\* mutant: no check for a request already in progress
checkProcessingStatus_NoPendingCheck(d, cancelYes) ==
    IF d.deck = 0 \/ d.pcomp
    THEN stopStatusPolling(d, cancelYes)
    ELSE [d EXCEPT !.reqs = Append(@, "current"), !.sr = "pending"]

checkProcessingStatus(d, cancelYes) ==
    IF d.deck = 0 \/ d.pcomp
    THEN stopStatusPolling(d, cancelYes)
    ELSE IF d.sr # "null"
         THEN d
         ELSE [d EXCEPT !.reqs = Append(@, "current"), !.sr = "pending"]

startStatusPolling(d, cancelYes) ==
    IF d.deck = 0 THEN d
    ELSE checkProcessingStatus(
            [d EXCEPT !.cpi = basePollingInterval, !.pc = 0, !.cec = 0,
                      !.timer = TRUE, !.tint = basePollingInterval],
            cancelYes)

\* QDialog::accept() / reject()
done(d, r) == [d EXCEPT !.res = r]

\* lines 699-725 and 763-764: completion check and release of the reply
successTail(d, status, cancelYes) ==
    LET d1 == IF isCompletionStatus(status)
              THEN LET c == stopStatusPolling(
                               [d EXCEPT !.pcomp = TRUE], cancelYes)
                   IN IF toLower(status) = "complete"
                      THEN done(dlgSetState(c, "Complete"), "accepted")
                      ELSE IF toLower(status) = "failed"
                           THEN dlgSetState(c, "Error")
                           ELSE c
              ELSE d
    IN releaseStatusReply(d1)

\* onStatusCheckFinished up to the point where it returns or opens a
\* question
onStatusCheckFinished(d, ok, status, cancelYes) ==
    IF d.sr = "null" THEN d
    ELSE
    LET d1 == [d EXCEPT !.pc = @ + 1, !.sr = "finished"]
    IN IF ok
       THEN LET d2 == [d1 EXCEPT !.cec = 0]
                d3 == IF d2.pc > AdaptThreshold
                         /\ toLower(status) = "processing"
                      THEN LET i == qMin(maxPollingInterval,
                                      (basePollingInterval * (20 + d2.pc))
                                         \div 20)
                           IN [d2 EXCEPT !.cpi = i, !.tint = i]
                      ELSE d2
            IN IF /\ d3.pc > NoteThreshold
                  /\ toLower(status) = "processing"
                  /\ d3.pc > BackgroundThreshold
                  /\ ~d3.bmo
               THEN [d3 EXCEPT !.bmo = TRUE, !.hp = "backgroundOffer"]
               ELSE successTail(d3, status, cancelYes)
       ELSE LET d2 == [d1 EXCEPT !.cec = @ + 1]
            IN IF d2.cec > ErrorPromptThreshold
               THEN [d2 EXCEPT !.hp = "connIssues"]
               ELSE errorTail(d2)

\* mutant: declining the offer clears backgroundModeOffered
answerBackground_OffersAgain(d, yes, cancelYes) ==
    LET d1 == [d EXCEPT !.hp = "none"]
    IN IF yes
       THEN done(stopStatusPolling(d1, cancelYes), "accepted")
       ELSE successTail([d1 EXCEPT !.pc = BackgroundResetTo, !.bmo = FALSE],
                        "processing", cancelYes)

\* the rest of onStatusCheckFinished once the question is answered
answerBackground(d, yes, cancelYes) ==
    LET d1 == [d EXCEPT !.hp = "none"]
    IN IF yes
       THEN done(stopStatusPolling(d1, cancelYes), "accepted")
       ELSE successTail([d1 EXCEPT !.pc = BackgroundResetTo],
                        "processing", cancelYes)

\* mutant: declining leaves consecutiveErrorCount where it was
answerConnIssues_NoReset(d, yes) ==
    LET d1 == [d EXCEPT !.hp = "none"]
    IN IF yes
       THEN dlgSetState(d1, "Error")
       ELSE errorTail(d1)

answerConnIssues(d, yes) ==
    LET d1 == [d EXCEPT !.hp = "none"]
    IN IF yes
       THEN dlgSetState(d1, "Error")
       ELSE errorTail([d1 EXCEPT !.cec = ErrorResetTo])

\* outcome of the upload: "id" (deck_id present), "emptyId" (deck_id present
\* but not a non-empty string), "noId", "error"
onNetworkReplyFinished(d, outcome, cancelYes) ==
    IF d.cur = "null" THEN d
    ELSE LET d1 ==
               CASE outcome = "id" ->
                      startStatusPolling(
                         [d EXCEPT !.deck = 1,
                                   !.reqs = [i \in DOMAIN @ |-> "stale"]],
                         cancelYes)
                 [] outcome = "emptyId" ->
                      startStatusPolling([d EXCEPT !.deck = 0], cancelYes)
                 [] OTHER -> dlgSetState(d, "Error")
         IN [d1 EXCEPT !.cur = "null"]

onCreateDeckClicked(d) ==
    IF d.cur # "null" \/ ~d.title \/ ~d.files THEN d
    ELSE [dlgSetState(d, "Processing") EXCEPT !.pcomp = FALSE,
                                              !.cur = "pending"]

\* mutant: the confirmed cancel does not abort the upload
cancelConfirmed_LeavesUpload(d, cancelYes) ==
    LET d1 == stopStatusPolling(d, cancelYes)
        d3 == IF d1.sr # "null" THEN [d1 EXCEPT !.sr = "null"] ELSE d1
    IN done(dlgSetState(d3, "Idle"), "rejected")

\* the cancel button's slot after the user confirmed (lines 32-47)
cancelConfirmed(d, cancelYes) ==
    LET d1 == stopStatusPolling(d, cancelYes)
        d2 == IF d1.cur # "null"
              THEN [onNetworkReplyFinished(d1, "error", cancelYes)
                       EXCEPT !.cur = "null"]
              ELSE d1
        d3 == IF d2.sr # "null" THEN [d2 EXCEPT !.sr = "null"] ELSE d2
    IN done(dlgSetState(d3, "Idle"), "rejected")

\* ~CreateDeckDialog
destructor(d, cancelYes) ==
    LET d1 == stopStatusPolling(d, cancelYes)
        d2 == IF d1.cur # "null"
              THEN LET a == onNetworkReplyFinished(d1, "error", cancelYes)
                   IN [(IF a.cur = "null" THEN [a EXCEPT !.ub = TRUE] ELSE a)
                          EXCEPT !.cur = "null"]
              ELSE d1
    IN IF d2.sr # "null" THEN [d2 EXCEPT !.sr = "null"] ELSE d2

\* exec() returns once accept()/reject() was called and no question is open
closing(d) == d.res # "none" /\ ~d.cc /\ d.hp = "none"

\* the step ends with the fields of d; endLife unless a call through a null
\* pointer brought the program down
DSet(d, call, status, endLife) ==
    /\ dialogState' = d.st
    /\ currentReply' = d.cur
    /\ statusReply' = d.sr
    /\ reqs' = d.reqs
    /\ statusTimer' = d.timer
    /\ timerInterval' = d.tint
    /\ deckId' = d.deck
    /\ processingComplete' = d.pcomp
    /\ pollingCounter' = d.pc
    /\ consecutiveErrorCount' = d.cec
    /\ backgroundModeOffered' = d.bmo
    /\ currentPollingInterval' = d.cpi
    /\ controlsEnabled' = d.ctl
    /\ createEnabled' = d.crt
    /\ hasTitle' = d.title
    /\ hasFiles' = d.files
    /\ cancelConfirm' = d.cc
    /\ handlerPrompt' = d.hp
    /\ dialogResult' = d.res
    /\ nullDeref' = d.ub
    /\ dlgCall' = call
    /\ lastStatus' = status
    /\ \E crash \in (IF d.ub THEN BOOLEAN ELSE {FALSE}) :
          life' = IF crash THEN "crashed" ELSE endLife

\* a slot returns to the event loop of exec()
DCommit(d, call, status) ==
    IF d = D
    THEN UNCHANGED <<dialogState, currentReply, statusReply, reqs,
                     statusTimer, timerInterval, deckId,
                     processingComplete, pollingCounter,
                     consecutiveErrorCount, backgroundModeOffered,
                     currentPollingInterval, controlsEnabled,
                     createEnabled, hasTitle, hasFiles, cancelConfirm,
                     handlerPrompt, dialogResult, life, nullDeref,
                     dlgCall, lastStatus>>
    ELSE DSet(d, call, status, IF closing(d) THEN "closed" ELSE "open")

\* answers worth distinguishing for the question that abort() can raise
AbortAnswers ==
    IF statusReply = "pending" /\ consecutiveErrorCount >= ErrorPromptThreshold
    THEN BOOLEAN ELSE {FALSE}

DlgInit ==
    /\ dialogState = "Idle"
    /\ currentReply = "null"
    /\ statusReply = "null"
    /\ reqs = <<>>
    /\ statusTimer = FALSE
    /\ timerInterval = 0
    /\ deckId = 0
    /\ processingComplete = FALSE
    /\ pollingCounter = 0
    /\ consecutiveErrorCount = 0
    /\ backgroundModeOffered = FALSE
    /\ currentPollingInterval = 2000
    /\ controlsEnabled = TRUE
    /\ createEnabled = FALSE
    /\ hasTitle = FALSE
    /\ hasFiles = FALSE
    /\ cancelConfirm = FALSE
    /\ handlerPrompt = "none"
    /\ dialogResult = "none"
    /\ life = "open"
    /\ uploads = 0
    /\ nullDeref = FALSE
    /\ dlgCall = "none"
    /\ lastStatus = "-"
    /\ terminalSeen = FALSE
    /\ preProcessing = TRUE
    /\ detached = FALSE
    /\ pollFailed = FALSE

\* the user can reach the dialog's widgets
Interactive == life = "open" /\ ~cancelConfirm /\ handlerPrompt = "none"


\* ---- operations ------------------------------------------------------
\* statusTimer timeout: the signal is connected to the slot twice
statusTimerTick ==
    /\ life = "open"
    /\ statusTimer
    /\ pollingCounter < MaxPolls
    /\ \E cancelYes \in AbortAnswers :
         DCommit(checkProcessingStatus(
                    checkProcessingStatus(D, cancelYes), cancelYes),
                 "-", "-")
    /\ UNCHANGED <<uploads, preProcessing, terminalSeen, detached, pollFailed>>

\* finished() of the status request in flight.  While a question of an
\* earlier call of the slot is open, a reply that would raise a second
\* question is not delivered.
statusReplyArrives ==
    /\ life = "open"
    /\ reqs # <<>>
    /\ \E ok \in BOOLEAN, cancelYes \in AbortAnswers :
       \E status \in (IF ok THEN Statuses ELSE {"-"}) :
       LET r == onStatusCheckFinished(
                   [D EXCEPT !.reqs = Tail(@), !.hp = "none"], ok, status,
                   cancelYes)
       IN
         /\ status \in OtherStatuses => preProcessing
         /\ handlerPrompt # "none" => r.hp = "none"
         /\ DCommit(IF handlerPrompt # "none"
                    THEN [r EXCEPT !.hp = handlerPrompt] ELSE r,
                    IF ok THEN "statusOk" ELSE "statusFailed", status)
         /\ preProcessing' = (preProcessing /\ status # "processing")
         /\ terminalSeen' = (\/ terminalSeen
                             \/ /\ Head(reqs) = "current"
                                /\ statusReply # "null"
                                /\ status \in TerminalWords)
         /\ pollFailed' = (pollFailed \/ (~ok /\ statusReply # "null"))
    /\ UNCHANGED <<uploads, detached>>

\* finished() of the upload
uploadReplyArrives ==
    /\ life = "open"
    /\ currentReply = "pending"
    /\ \E outcome \in {"id", "emptyId", "noId", "error"},
          cancelYes \in AbortAnswers :
         /\ DCommit(onNetworkReplyFinished(D, outcome, cancelYes),
                    "uploadReply", outcome)
         /\ preProcessing' = (preProcessing \/ outcome = "id")
         /\ terminalSeen' = (terminalSeen /\ outcome # "id")
         /\ detached' = (detached /\ outcome # "id")
         /\ pollFailed' = (pollFailed /\ outcome # "id")
    /\ UNCHANGED uploads

createDeckClick ==
    /\ Interactive
    /\ createEnabled
    /\ uploads < MaxJobs
    /\ DCommit(onCreateDeckClicked(D), "createDeckClick", "-")
    /\ uploads' = IF onCreateDeckClicked(D).cur # currentReply
                  THEN uploads + 1 ELSE uploads
    /\ UNCHANGED <<preProcessing, terminalSeen, detached, pollFailed>>

\* createDeckClick with the job budget of SpecDlgDeep
createDeckClickDeep ==
    /\ Interactive
    /\ createEnabled
    /\ uploads < MaxJobsDeep
    /\ DCommit(onCreateDeckClicked(D), "createDeckClick", "-")
    /\ uploads' = IF onCreateDeckClicked(D).cur # currentReply
                  THEN uploads + 1 ELSE uploads
    /\ UNCHANGED <<preProcessing, terminalSeen, detached, pollFailed>>

\* cancelButton clicked (lines 25-53) up to the question
cancelClick ==
    /\ Interactive
    /\ DCommit(IF dialogState = "Processing"
               THEN [D EXCEPT !.cc = TRUE]
               ELSE done(D, "rejected"),
               "-", "-")
    /\ UNCHANGED <<uploads, preProcessing, terminalSeen, detached, pollFailed>>

answerCancel ==
    /\ life = "open"
    /\ cancelConfirm
    /\ handlerPrompt = "none"
    /\ \E yes \in BOOLEAN, cancelYes \in AbortAnswers :
         DCommit(IF yes
                 THEN cancelConfirmed([D EXCEPT !.cc = FALSE], cancelYes)
                 ELSE [D EXCEPT !.cc = FALSE],
                 IF ~yes THEN "-"
                 ELSE IF dialogState = "Processing" THEN "cancelYes"
                 ELSE "cancelYesLate", "-")
    /\ UNCHANGED <<uploads, preProcessing, terminalSeen, detached, pollFailed>>

answerBackgroundOffer ==
    /\ life = "open"
    /\ handlerPrompt = "backgroundOffer"
    /\ \E yes \in BOOLEAN, cancelYes \in AbortAnswers :
         /\ DCommit(answerBackground(D, yes, cancelYes),
                    IF yes THEN "backgroundYes" ELSE "backgroundNo", "-")
         /\ detached' = (detached \/ yes)
    /\ UNCHANGED <<uploads, preProcessing, terminalSeen, pollFailed>>

answerConnectionIssues ==
    /\ life = "open"
    /\ handlerPrompt = "connIssues"
    /\ \E yes \in BOOLEAN :
         DCommit(answerConnIssues(D, yes),
                 IF yes THEN "connCancelYes" ELSE "connCancelNo", "-")
    /\ pollFailed' = TRUE
    /\ UNCHANGED <<uploads, preProcessing, terminalSeen, detached>>

\* the window's close button or Escape: QDialog::reject()
closeWindow ==
    /\ Interactive
    /\ DCommit(done(D, "rejected"), "closeWindow", "-")
    /\ UNCHANGED <<uploads, preProcessing, terminalSeen, detached, pollFailed>>

\* exec() has returned to MainWindow::onCreateDeckClicked, whose local
\* dialog object goes out of scope
dialogDestroyed ==
    /\ life = "closed"
    /\ \E cancelYes \in AbortAnswers :
         DSet(destructor(D, cancelYes), "destructor", "-", "destroyed")
    /\ UNCHANGED <<uploads, preProcessing, terminalSeen, detached, pollFailed>>

\* titleEdit textChanged -> updateCreateButtonState
editTitle ==
    /\ Interactive
    /\ controlsEnabled
    /\ DCommit(updateCreateButtonState([D EXCEPT !.title = ~@]), "-", "-")
    /\ UNCHANGED <<uploads, preProcessing, terminalSeen, detached, pollFailed>>

onAddFilesClicked ==
    /\ Interactive
    /\ controlsEnabled
    /\ DCommit(updateCreateButtonState([D EXCEPT !.files = TRUE]), "-", "-")
    /\ UNCHANGED <<uploads, preProcessing, terminalSeen, detached, pollFailed>>

onRemoveFileClicked ==
    /\ Interactive
    /\ controlsEnabled
    /\ hasFiles
    /\ \E left \in BOOLEAN :
         DCommit(updateCreateButtonState([D EXCEPT !.files = left]),
                 "-", "-")
    /\ UNCHANGED <<uploads, preProcessing, terminalSeen, detached, pollFailed>>

dropEvent ==
    /\ Interactive
    /\ DCommit(updateCreateButtonState([D EXCEPT !.files = TRUE]), "-", "-")
    /\ UNCHANGED <<uploads, preProcessing, terminalSeen, detached, pollFailed>>

DlgNext ==
    \/ statusTimerTick
    \/ statusReplyArrives
    \/ uploadReplyArrives
    \/ createDeckClick
    \/ cancelClick
    \/ answerCancel
    \/ answerBackgroundOffer
    \/ answerConnectionIssues
    \/ closeWindow
    \/ dialogDestroyed
    \/ editTitle
    \/ onAddFilesClicked
    \/ onRemoveFileClicked
    \/ dropEvent

DlgNextDeep ==
    \/ statusTimerTick
    \/ statusReplyArrives
    \/ uploadReplyArrives
    \/ createDeckClickDeep
    \/ cancelClick
    \/ answerCancel
    \/ answerBackgroundOffer
    \/ answerConnectionIssues
    \/ closeWindow
    \/ dialogDestroyed
    \/ editTitle
    \/ onAddFilesClicked
    \/ onRemoveFileClicked
    \/ dropEvent

(***************************************************************************)
(* MainWindow::cleanupAndExit (src/unnamed/part_013, lines 700-724): it    *)
(* calls serverManager->stopServer(), and when that call has returned it   *)
(* connects a lambda to stateChanged that quits a local event loop on      *)
(* Stopped, starts a single-shot timer of 5 s that quits the loop as well, *)
(* and runs the loop.                                                      *)
(***************************************************************************)
VARIABLES
    exitPc,        \* position in cleanupAndExit: "none" (not called),
                   \* "stopping" (inside stopServer()), "waiting" (lambda
                   \* connected, loop.exec() running), "done"
    loopEndedBy    \* what made loop.exec() return: "none", "stopped"
                   \* (the lambda saw Stopped) or "timeout"

exitVars == <<exitPc, loopEndedBy>>

ExitInit ==
    /\ exitPc = "none"
    /\ loopEndedBy = "none"

\* stateChanged(Stopped) is among the signals of the step
EmitsStopped(log) ==
    \E i \in 1..Len(log) :
        log[i].sig = "stateChanged" /\ log[i].arg = "Stopped"

\* the application before cleanupAndExit is called
running ==
    /\ exitPc = "none"
    /\ SMNext
    /\ UNCHANGED exitVars

\* cleanupAndExit up to the return of stopServer() or to its first wait
cleanupAndExit ==
    /\ exitPc = "none"
    /\ stopPc = "idle"
    /\ stopServer
    /\ exitPc' = IF stopPc' = "idle" THEN "waiting" ELSE "stopping"
    /\ UNCHANGED loopEndedBy

\* stopServer() goes on inside cleanupAndExit; when it returns the lambda
\* and the timer are set up and the loop starts
cleanupStopping ==
    /\ exitPc = "stopping"
    /\ (stopWaitExit \/ stopTimeout1 \/ stopTimeout2)
    /\ exitPc' = IF stopPc' = "idle" THEN "waiting" ELSE "stopping"
    /\ UNCHANGED loopEndedBy

\* an event handled by loop.exec(): the timer of ServerManager is stopped
\* and its process handle deleted, so only probe replies are left
cleanupLoopEvent ==
    /\ exitPc = "waiting"
    /\ onHealthCheckReply
    /\ IF EmitsStopped(emitted')
       THEN exitPc' = "done" /\ loopEndedBy' = "stopped"
       ELSE UNCHANGED exitVars

\* timeoutTimer fires after 5 s
cleanupTimeout ==
    /\ exitPc = "waiting"
    /\ exitPc' = "done"
    /\ loopEndedBy' = "timeout"
    /\ UNCHANGED smVars

ExitNext ==
    \/ running
    \/ cleanupAndExit
    \/ cleanupStopping
    \/ cleanupLoopEvent
    \/ cleanupTimeout

(***************************************************************************)
(* ResourceCache (src/unnamed/part_013, lines 998-1135, and                *)
(* src/optimized_mainwindow.h, lines 145-183).  The two QCache members are *)
(* kept as sequences of entries, most recently used first; QCache evicts   *)
(* from the other end.  Callers are the contexts that call the public      *)
(* operations; an operation that locks cacheMutex is one step up to the    *)
(* lock and one step for its body and the unlock.                          *)
(***************************************************************************)
MaxGets == 2             \* cap on hitCount + missCount
NumAnimations == 21      \* valid movie files: one more than the cache holds
Callers == {1, 2}
MiB == 1048576         \* 1024 * 1024 bytes
animationMaxCost == 20   \* animationCache(20)

ImagePaths == {"a", "b", "big", "missing"}
CacheSizes == {0, 64, 100, 128}   \* arguments of setCacheSize, in MB

\* QPixmap(path): width and height of the file's picture; a file that
\* cannot be loaded gives a null pixmap
PixmapWidth(path) ==
    CASE path = "a" -> 4096 [] path = "b" -> 4096
      [] path = "big" -> 6000 [] OTHER -> 0

PixmapHeight(path) ==
    CASE path = "a" -> 4096 [] path = "b" -> 3072
      [] path = "big" -> 4500 [] OTHER -> 0

PixmapIsNull(path) == PixmapWidth(path) = 0 \/ PixmapHeight(path) = 0

ImageCost(path) == PixmapWidth(path) * PixmapHeight(path) * 4

\* QMovie(path).isValid(): path 0 stands for a file that is no movie
MovieIsValid(path) == path # 0

VARIABLES
    imageCache,       \* <<[key, cost]>>, most recently used first
    imageMaxCost,     \* imageCache.maxCost()
    animationCache,   \* <<[key, cost]>>, most recently used first
    maxCacheSizeMB,
    hitCount,
    missCount,
    cacheMutex,       \* 0 (free) or the caller that holds it
    cachePc,          \* per caller: the operation it is inside
    cacheDestroyed,   \* the destructor has run
    evictions,        \* entries evicted by the operation that has just run
    asked,            \* the path the operation that has just run was given
    unguarded,        \* a member was accessed without holding cacheMutex
    relocked          \* a caller locked cacheMutex while holding it

cacheVars == <<imageCache, imageMaxCost, animationCache, maxCacheSizeMB,
               hitCount, missCount, cacheMutex, cachePc, cacheDestroyed,
               evictions, asked, unguarded, relocked>>

Idle == [op |-> "idle", held |-> FALSE, outer |-> "none"]

CacheInit ==
    /\ imageCache = <<>>
    /\ imageMaxCost = 100 * MiB
    /\ animationCache = <<>>
    /\ maxCacheSizeMB = 100
    /\ hitCount = 0
    /\ missCount = 0
    /\ cacheMutex = 0
    /\ cachePc = [c \in Callers |-> Idle]
    /\ cacheDestroyed = FALSE
    /\ evictions = 0
    /\ asked = 0
    /\ unguarded = FALSE
    /\ relocked = FALSE

(* QCache<Key, T> *)
RECURSIVE totalCost(_)
totalCost(cache) ==
    IF cache = <<>> THEN 0 ELSE Head(cache).cost + totalCost(Tail(cache))

keys(cache) == {cache[i].key : i \in 1..Len(cache)}

contains(cache, key) == key \in keys(cache)

remove(cache, key) == SelectSeq(cache, LAMBDA e : e.key # key)

\* object(): a found entry becomes the most recently used one
relink(cache, key) ==
    SelectSeq(cache, LAMBDA e : e.key = key) \o remove(cache, key)

\* trim(m): drop least recently used entries while the total exceeds m
RECURSIVE trim(_, _)
trim(cache, m) ==
    IF cache # <<>> /\ totalCost(cache) > m
    THEN trim(SubSeq(cache, 1, Len(cache) - 1), m)
    ELSE cache

insert_NoTrim(cache, mx, key, cost) ==
    IF cost > mx
    THEN remove(cache, key)
    ELSE <<[key |-> key, cost |-> cost]>> \o remove(cache, key)

\* insert(): an object dearer than maxCost is deleted and not kept
insert(cache, mx, key, cost) ==
    IF cost > mx
    THEN remove(cache, key)
    ELSE <<[key |-> key, cost |-> cost]>> \o remove(trim(cache, mx - cost), key)

\* the movie files a request can name: a file that is no movie, the movie
\* used last, and the first file that is not cached (the files are
\* interchangeable)
AnimationRequests ==
    {0}
    \cup (IF animationCache = <<>> THEN {}
          ELSE {animationCache[1].key})
    \cup (LET absent == (1..NumAnimations) \ keys(animationCache)
          IN IF absent = {} THEN {}
             ELSE {CHOOSE p \in absent : \A q \in absent : p <= q})

(* the bodies of the operations, entered with cacheMutex held by c *)
InBody(c, op) ==
    /\ cachePc[c].op = op
    /\ cachePc[c].held
    /\ cacheMutex = c

\* QMutexLocker's destructor; clearAllCaches goes on to its second call
Return(c) ==
    /\ cacheMutex' = 0
    /\ cachePc' = [cachePc EXCEPT ![c] =
          IF cachePc[c].outer # "none" /\ cachePc[c].op = "clearImageCache"
          THEN [op |-> "clearAnimationCache", held |-> FALSE,
                outer |-> cachePc[c].outer]
          ELSE Idle]
    /\ cacheDestroyed' = (cacheDestroyed \/
                            (cachePc[c].outer = "destructor"
                               /\ cachePc[c].op = "clearAnimationCache"))

updateCacheStats(hit) ==
    /\ hitCount' = IF hit THEN hitCount + 1 ELSE hitCount
    /\ missCount' = IF hit THEN missCount ELSE missCount + 1

getImage(c) ==
    /\ InBody(c, "getImage")
    /\ \E path \in ImagePaths :
       LET cached == contains(imageCache, path)
           after == insert(imageCache, imageMaxCost, path, ImageCost(path))
       IN /\ asked' = path
          /\ IF cached
             THEN /\ imageCache' = relink(imageCache, path)
                  /\ updateCacheStats(TRUE)
                  /\ evictions' = 0
             ELSE /\ updateCacheStats(FALSE)
                  /\ imageCache' = IF PixmapIsNull(path) THEN imageCache ELSE after
                  /\ evictions' = IF PixmapIsNull(path) THEN 0
                                  ELSE Cardinality(keys(imageCache) \ keys(after))
    /\ Return(c)
    /\ UNCHANGED <<imageMaxCost, animationCache, maxCacheSizeMB, unguarded,
                   relocked>>

preloadImage(c) ==
    /\ InBody(c, "preloadImage")
    /\ \E path \in ImagePaths :
       LET cached == contains(imageCache, path)
           after == insert(imageCache, imageMaxCost, path, ImageCost(path))
           kept == cached \/ PixmapIsNull(path)
       IN /\ asked' = path
          /\ imageCache' = IF kept THEN imageCache ELSE after
          /\ evictions' = IF kept THEN 0
                          ELSE Cardinality(keys(imageCache) \ keys(after))
    /\ Return(c)
    /\ UNCHANGED <<imageMaxCost, animationCache, maxCacheSizeMB, hitCount,
                   missCount, unguarded, relocked>>

clearImageCache(c) ==
    /\ InBody(c, "clearImageCache")
    /\ imageCache' = <<>>
    /\ evictions' = 0
    /\ asked' = 0
    /\ Return(c)
    /\ UNCHANGED <<imageMaxCost, animationCache, maxCacheSizeMB, hitCount,
                   missCount, unguarded, relocked>>

getAnimation(c) ==
    /\ InBody(c, "getAnimation")
    /\ \E path \in AnimationRequests :
       LET cached == contains(animationCache, path)
           after == insert(animationCache, animationMaxCost, path, 1)
       IN /\ asked' = path
          /\ IF cached
             THEN /\ animationCache' = relink(animationCache, path)
                  /\ updateCacheStats(TRUE)
                  /\ evictions' = 0
             ELSE /\ updateCacheStats(FALSE)
                  /\ animationCache' = IF MovieIsValid(path) THEN after
                                       ELSE animationCache
                  /\ evictions' = IF MovieIsValid(path)
                                  THEN Cardinality(keys(animationCache) \ keys(after))
                                  ELSE 0
    /\ Return(c)
    /\ UNCHANGED <<imageCache, imageMaxCost, maxCacheSizeMB, unguarded,
                   relocked>>

preloadAnimation(c) ==
    /\ InBody(c, "preloadAnimation")
    /\ \E path \in AnimationRequests :
       LET cached == contains(animationCache, path)
           after == insert(animationCache, animationMaxCost, path, 1)
           kept == cached \/ ~MovieIsValid(path)
       IN /\ asked' = path
          /\ animationCache' = IF kept THEN animationCache ELSE after
          /\ evictions' = IF kept THEN 0
                          ELSE Cardinality(keys(animationCache) \ keys(after))
    /\ Return(c)
    /\ UNCHANGED <<imageCache, imageMaxCost, maxCacheSizeMB, hitCount,
                   missCount, unguarded, relocked>>

clearAnimationCache(c) ==
    /\ InBody(c, "clearAnimationCache")
    /\ animationCache' = <<>>
    /\ evictions' = 0
    /\ asked' = 0
    /\ Return(c)
    /\ UNCHANGED <<imageCache, imageMaxCost, maxCacheSizeMB, hitCount,
                   missCount, unguarded, relocked>>

\* setMaxCost() trims the cache to the new budget
setCacheSize(c) ==
    /\ InBody(c, "setCacheSize")
    /\ \E maxSizeMB \in CacheSizes :
       LET after == trim(imageCache, maxSizeMB * MiB)
       IN /\ maxCacheSizeMB' = maxSizeMB
          /\ imageMaxCost' = maxSizeMB * MiB
          /\ imageCache' = after
          /\ evictions' = Len(imageCache) - Len(after)
          /\ asked' = 0
    /\ Return(c)
    /\ UNCHANGED <<animationCache, hitCount, missCount, unguarded, relocked>>

\* getCacheSize() and getHitRatio() read under the lock
getCacheSize(c) ==
    /\ InBody(c, "getCacheSize")
    /\ evictions' = 0
    /\ asked' = 0
    /\ Return(c)
    /\ UNCHANGED <<imageCache, imageMaxCost, animationCache, maxCacheSizeMB,
                   hitCount, missCount, unguarded, relocked>>

getHitRatio(c) ==
    /\ InBody(c, "getHitRatio")
    /\ evictions' = 0
    /\ asked' = 0
    /\ Return(c)
    /\ UNCHANGED <<imageCache, imageMaxCost, animationCache, maxCacheSizeMB,
                   hitCount, missCount, unguarded, relocked>>

\* getHitCount() and getMissCount() are inline in the header and return the
\* counter without a QMutexLocker
getHitCount(c) ==
    /\ ~cacheDestroyed
    /\ cachePc[c].op = "idle"
    /\ unguarded' = (unguarded \/ cacheMutex # c)
    /\ evictions' = 0
    /\ asked' = 0
    /\ UNCHANGED <<imageCache, imageMaxCost, animationCache, maxCacheSizeMB,
                   hitCount, missCount, cacheMutex, cachePc, cacheDestroyed,
                   relocked>>

getMissCount(c) ==
    /\ ~cacheDestroyed
    /\ cachePc[c].op = "idle"
    /\ unguarded' = (unguarded \/ cacheMutex # c)
    /\ evictions' = 0
    /\ asked' = 0
    /\ UNCHANGED <<imageCache, imageMaxCost, animationCache, maxCacheSizeMB,
                   hitCount, missCount, cacheMutex, cachePc, cacheDestroyed,
                   relocked>>

LockingOps == {"getImage", "preloadImage", "clearImageCache", "getAnimation",
               "preloadAnimation", "clearAnimationCache", "setCacheSize",
               "getCacheSize", "getHitRatio"}

\* QMutexLocker locker(&cacheMutex): the caller blocks until the mutex is
\* free; a caller that holds it already blocks for ever
Lock(c, pc) ==
    /\ cacheMutex \in {0, c}
    /\ relocked' = (relocked \/ cacheMutex = c)
    /\ cacheMutex' = c
    /\ cachePc' = [cachePc EXCEPT ![c] = [pc EXCEPT !.held = TRUE]]
    /\ evictions' = 0
    /\ asked' = 0
    /\ UNCHANGED <<imageCache, imageMaxCost, animationCache, maxCacheSizeMB,
                   hitCount, missCount, cacheDestroyed, unguarded>>

\* a caller enters one of the locking operations
cacheEnter(c) ==
    /\ ~cacheDestroyed
    /\ cachePc[c].op = "idle"
    /\ \E op \in LockingOps :
          /\ op \in {"getImage", "getAnimation"}
                => hitCount + missCount < MaxGets
          /\ Lock(c, [op |-> op, held |-> FALSE, outer |-> "none"])

\* clearAllCaches() takes no lock itself and calls clearImageCache() and
\* then clearAnimationCache(); the destructor calls clearAllCaches()
clearAllCaches(c) ==
    /\ ~cacheDestroyed
    /\ cachePc[c].op = "idle"
    /\ \E outer \in {"clearAllCaches", "destructor"} :
          /\ outer = "destructor" => \A d \in Callers : cachePc[d].op = "idle"
          /\ Lock(c, [op |-> "clearImageCache", held |-> FALSE,
                      outer |-> outer])

\* the second call of clearAllCaches() locks again
clearAllCachesSecond(c) ==
    /\ cachePc[c].op = "clearAnimationCache"
    /\ ~cachePc[c].held
    /\ Lock(c, cachePc[c])

CacheNext ==
    \E c \in Callers :
        \/ cacheEnter(c)
        \/ getImage(c)
        \/ preloadImage(c)
        \/ clearImageCache(c)
        \/ getAnimation(c)
        \/ preloadAnimation(c)
        \/ clearAnimationCache(c)
        \/ setCacheSize(c)
        \/ getCacheSize(c)
        \/ getHitRatio(c)
        \/ getHitCount(c)
        \/ getMissCount(c)
        \/ clearAllCaches(c)
        \/ clearAllCachesSecond(c)

(***************************************************************************)
(* Specifications: the components do not interact, each is explored on     *)
(* its own with the other ones at rest.                                    *)
(***************************************************************************)
vars == <<smVars, dlgVars, exitVars, cacheVars>>

Init == SMInit /\ DlgInit /\ ExitInit /\ CacheInit

SpecSM == Init /\ [][SMNext /\ UNCHANGED <<dlgVars, exitVars, cacheVars>>]_vars

\* the two waits of stopServer are bounded (10 s and 3 s)
FairSpecSM ==
    SpecSM /\ WF_vars(stopTimeout1 /\ UNCHANGED <<dlgVars, exitVars, cacheVars>>)
           /\ WF_vars(stopTimeout2 /\ UNCHANGED <<dlgVars, exitVars, cacheVars>>)

\* ServerManager as MainWindow uses it up to and through cleanupAndExit
SpecExit == Init /\ [][ExitNext /\ UNCHANGED <<dlgVars, cacheVars>>]_vars

SpecDlg == Init /\ [][DlgNext /\ UNCHANGED <<smVars, exitVars, cacheVars>>]_vars

\* the timer keeps firing while it is armed and every request is answered
\* (by a response, an error or the 30 s transfer timeout); the user is not
\* obliged to do anything.  pollingCounter is capped at MaxPolls, beyond the
\* last threshold the code compares it with: a run that reaches the cap with
\* the timer armed stands for one that polls on.
FairSpecDlg ==
    SpecDlg /\ WF_vars(statusTimerTick /\ UNCHANGED <<smVars, exitVars, cacheVars>>)
            /\ WF_vars(statusReplyArrives /\ UNCHANGED <<smVars, exitVars, cacheVars>>)

\* the dialog with up to MaxJobsDeep uploads
SpecCache ==
    Init /\ [][CacheNext /\ UNCHANGED <<smVars, dlgVars, exitVars>>]_vars

SpecDlgDeep == Init /\ [][DlgNextDeep /\ UNCHANGED <<smVars, exitVars, cacheVars>>]_vars

(***************************************************************************)
(* Claims about CreateDeckDialog.                                          *)
(***************************************************************************)
\* C1: at most one status request is outstanding at any time, and no step
\* issues a request while statusReply is non-null, whatever the order of
\* timer ticks (two slot calls each), replies, questions and start/stop.
C1_OneRequestOutstanding ==
    /\ [](Len(reqs) <= 1)
    /\ [][Len(reqs') > Len(reqs)
            => statusReply = "null" /\ Len(reqs') = Len(reqs) + 1]_vars

\* a request is pending, issued by a tick after earlier polls, while the
\* timer keeps firing and the cancel question is open
C1_Witness ==
    /\ statusReply = "pending"
    /\ Len(reqs) = 1
    /\ statusTimer
    /\ pollingCounter > 0
    /\ cancelConfirm
    /\ life = "open"

\* C2: the step that handles a response saying complete or failed, in any
\* letter case, leaves the poll timer stopped and no request in flight, and
\* the dialog in Complete for complete and in Error for failed; from then
\* on the timer stays stopped and no request is issued for that job.
C2_TerminalStopsPolling ==
    /\ [][ /\ (dlgCall' = "statusOk" /\ lastStatus' \in TerminalWords)
               => ~statusTimer' /\ reqs' = <<>>
           /\ (dlgCall' = "statusOk"
                 /\ lastStatus' \in {"complete", "COMPLETE"})
               => dialogState' = "Complete"
           /\ (dlgCall' = "statusOk" /\ lastStatus' \in {"failed", "Failed"})
               => dialogState' = "Error" ]_vars
    /\ [](terminalSeen
            => /\ ~statusTimer
               /\ \A i \in DOMAIN reqs : reqs[i] # "current")

\* fifteen processing polls (the interval has grown to 3500 ms), then a
\* poll that returns complete: Complete, timer stopped, nothing in flight
C2_Witness ==
    /\ dlgCall = "statusOk"
    /\ lastStatus = "complete"
    /\ terminalSeen
    /\ timerInterval = 3500
    /\ dialogState = "Complete"
    /\ ~statusTimer
    /\ reqs = <<>>

\* C13: backgroundModeOffered never goes from true back to false, and the
\* background question only opens in a step that takes it from false to
\* true; so the question is asked at most once, also when the user keeps
\* waiting and pollingCounter passes 60 again.
C13_BackgroundOfferOnce ==
    [][ /\ backgroundModeOffered => backgroundModeOffered'
        /\ (handlerPrompt' = "backgroundOffer"
              /\ handlerPrompt # "backgroundOffer")
           => ~backgroundModeOffered /\ backgroundModeOffered' ]_vars

\* the only job of the dialog, offer declined earlier: a "processing"
\* response is handled with pollingCounter above 60 and no question opens
C13_Witness ==
    /\ uploads = 1
    /\ dlgCall = "statusOk" /\ lastStatus = "processing"
    /\ pollingCounter > 60
    /\ backgroundModeOffered
    /\ handlerPrompt = "none"
    /\ statusTimer

\* C14: a successful response with a non-terminal status that brings
\* pollingCounter above 60 while no background offer has been made yet
\* opens the background question.
C14_OfferForEveryStatus ==
    [][ (/\ dlgCall' = "statusOk"
         /\ lastStatus' \notin TerminalWords
         /\ handlerPrompt = "none"
         /\ pollingCounter + 1 > 60
         /\ ~backgroundModeOffered)
        => handlerPrompt' = "backgroundOffer" ]_vars

\* C15: the step in which the user accepts the background offer leaves the
\* poll timer stopped, no status request in flight and statusReply null,
\* calls accept() and makes no state transition (none into Complete or
\* Error in particular);
\* from then on the timer stays stopped and no request is issued for the
\* detached job.
C15_BackgroundAccepted ==
    /\ [][ dlgCall' = "backgroundYes"
           => /\ ~statusTimer'
              /\ reqs' = <<>>
              /\ statusReply' = "null"
              /\ dialogResult' = "accepted"
              /\ dialogState' = dialogState ]_vars
    /\ [](detached
            => /\ ~statusTimer
               /\ \A i \in DOMAIN reqs : reqs[i] # "current")

\* C16: the step in which the user chooses to cancel at the connection-
\* issues question leaves statusReply null, the poll timer stopped and the
\* dialog in Error.
C16_ErrorCancelStopsPolling ==
    [][ dlgCall' = "connCancelYes"
        => /\ statusReply' = "null"
           /\ ~statusTimer'
           /\ dialogState' = "Error" ]_vars

\* C17: declining at the connection-issues question sets
\* consecutiveErrorCount to 4 and the timer interval to
\* min(10000, 2000 * 5) without stopping the timer; the count only grows by
\* one per failed poll, the question only opens on the failed poll that
\* takes it from 10 to 11 (seven failures after a decline), and it never
\* exceeds 11.
C17_DeclineKeepsPolling ==
    /\ [][ /\ dlgCall' = "connCancelNo"
              => /\ consecutiveErrorCount' = 4
                 /\ timerInterval' = 10000
                 /\ statusTimer' = statusTimer
                 /\ statusReply' = "null"
           /\ (handlerPrompt' = "connIssues" /\ handlerPrompt # "connIssues")
              => /\ dlgCall' = "statusFailed"
                 /\ consecutiveErrorCount = 10
                 /\ consecutiveErrorCount' = 11
           /\ consecutiveErrorCount' > consecutiveErrorCount
              => \/ /\ dlgCall' = "statusFailed"
                    /\ consecutiveErrorCount' = consecutiveErrorCount + 1
                 \/ /\ dlgCall' = "connCancelNo"
                    /\ consecutiveErrorCount' = 4 ]_vars
    /\ [](consecutiveErrorCount <= 11)

\* declined, and polling goes on
C17_Witness ==
    /\ dlgCall = "connCancelNo"
    /\ consecutiveErrorCount = 4
    /\ timerInterval = 10000
    /\ statusTimer
    /\ statusReply = "null"
    /\ dialogState = "Processing"

\* C18: in every state a call of stopStatusPolling() leaves the timer
\* stopped, no status request outstanding and no job id, and a second call
\* right after it changes nothing.
C18_StopPollingClearsJob ==
    \A answer \in BOOLEAN :
       LET s == stopStatusPolling(D, answer)
       IN /\ ~s.timer
          /\ s.sr = "null"
          /\ s.reqs = <<>>
          /\ s.deck = 0
          /\ stopStatusPolling(s, answer) = s

C21_AdaptiveInterval ==
    [][ (/\ dlgCall' = "statusOk"
         /\ lastStatus' \notin TerminalWords
         /\ statusReply # "null"
         /\ ~pollFailed
         /\ pollingCounter + 1 > 10)
        => timerInterval' =
              qMin(maxPollingInterval,
                   (basePollingInterval * (20 + pollingCounter + 1)) \div 20)
      ]_vars

C23_ErrorStatusCompletes ==
    [][ (/\ dlgCall' = "statusOk"
         /\ lastStatus' = "error"
         /\ statusReply # "null")
        => /\ ~statusTimer'
           /\ dialogState' # "Processing" ]_vars

\* C24: once polling has started for a job, the poller eventually stops or
\* a question (background offer or connection issues) is put to the user.
\* Stated for the runs in which no status check fails, which the claim
\* includes: a failed check counts as an exit here.
C24_PollingEscalates ==
    [](( /\ dlgCall = "uploadReply"
         /\ lastStatus = "id"
         /\ statusTimer
         /\ life = "open")
       => <>( \/ ~statusTimer
              \/ handlerPrompt # "none"
              \/ life # "open"
              \/ pollFailed ))

\* C25: an upload starts only while no upload is outstanding and no job is
\* being polled (timer stopped, no status request in flight).
C25_OneJobInFlight ==
    [][ uploads' > uploads
        => /\ currentReply = "null"
           /\ ~statusTimer
           /\ reqs = <<>> ]_vars

\* C26: an upload response that carries a deck id while a job is being
\* polled (timer armed for a deck id) does not replace the tracked job (no
\* request in flight turns stale, none is issued) and does not reset or
\* re-arm the poller.
C26_SecondJobRejected ==
    [][ (/\ dlgCall' = "uploadReply"
         /\ lastStatus' = "id"
         /\ currentReply = "pending"
         /\ statusTimer
         /\ deckId = 1)
        => /\ reqs' = reqs
           /\ statusReply' = statusReply
           /\ pollingCounter' = pollingCounter
           /\ consecutiveErrorCount' = consecutiveErrorCount
           /\ currentPollingInterval' = currentPollingInterval
           /\ timerInterval' = timerInterval ]_vars

\* C27: the dialog state changes only along Idle -> Processing,
\* Processing -> Complete, Processing -> Error, Processing -> Idle,
\* Complete -> Idle and Error -> Idle.
C27_StateTransitions ==
    [][ dialogState' # dialogState
        => <<dialogState, dialogState'>> \in
              { <<"Idle", "Processing">>,
                <<"Processing", "Complete">>,
                <<"Processing", "Error">>,
                <<"Processing", "Idle">>,
                <<"Complete", "Idle">>,
                <<"Error", "Idle">> } ]_vars

\* C28: while the dialog state is Processing the title field, the file
\* list, Add Files and Remove (controlsEnabled) and Create Deck
\* (createEnabled) are disabled.
C28_ProcessingDisablesControls ==
    dialogState = "Processing" => ~controlsEnabled /\ ~createEnabled

\* C29: while the dialog state is Complete or Error no control but the
\* close button is enabled.
C29_TerminalDisablesControls ==
    dialogState \in {"Complete", "Error"}
        => ~controlsEnabled /\ ~createEnabled

\* C30: an upload response without a usable deck id (no deck_id key, or a
\* deck_id that is not a non-empty string) puts the dialog in Error and
\* starts no polling: the step arms no timer and issues no status request.
C30_NoJobIdIsError ==
    [][ (/\ dlgCall' = "uploadReply"
         /\ lastStatus' \in {"noId", "emptyId"}
         /\ currentReply = "pending")
        => /\ dialogState' = "Error"
           /\ statusTimer' => statusTimer
           /\ Len(reqs') <= Len(reqs) ]_vars

\* C33: in a polling run without a failed check, handling a successful
\* response never lowers the interval of the timer.
C33_IntervalMonotonic ==
    [][ (/\ dlgCall' = "statusOk"
         /\ statusReply # "null"
         /\ ~pollFailed)
        => timerInterval' >= timerInterval ]_vars

\* C36: no step of the dialog dereferences statusReply while it is null.
C36_NoNullDereference ==
    ~nullDeref

\* C37: while the dialog state is Processing (and the dialog is open with
\* no question on screen), the upload is outstanding, or a status request
\* is in flight, or the timer is armed for a deck id with statusReply null
\* so that the next tick issues a request.
C37_ProcessingHasPending ==
    (dialogState = "Processing" /\ Interactive)
        => \/ currentReply = "pending"
           \/ reqs # <<>>
           \/ /\ statusTimer
              /\ statusReply = "null"
              /\ deckId # 0
              /\ ~processingComplete

\* C40: the interval of statusTimer equals currentPollingInterval once
\* the timer has been started.
C40_TimerMatchesRecord ==
    timerInterval # 0 => timerInterval = currentPollingInterval

(***************************************************************************)
(* Claims about ServerManager.                                             *)
(***************************************************************************)
Has(log, name) == \E i \in 1..Len(log) : log[i].sig = name
HasError(log) ==
    \E i \in 1..Len(log) : log[i].sig = "stateChanged" /\ log[i].arg = "Error"

\* the states currentState went through during the last step
StateTrail ==
    <<prevState>> \o
    [i \in 1..Len(SelectSeq(emitted, LAMBDA e : e.sig = "stateChanged")) |->
        SelectSeq(emitted, LAMBDA e : e.sig = "stateChanged")[i].arg]

\* C3: stopServer() called in Stopped or Stopping changes nothing and emits
\* nothing; a second stopServer() right after a completed one leaves the
\* state Stopped; terminate and kill are sent at most once each to a worker.
C3_StopIdempotent ==
    [][ /\ (smCall' = "stopServer" /\ serverState \in {"Stopped", "Stopping"})
           => /\ UNCHANGED <<serverState, retryCount, serverProcess,
                             healthTimer, probes, stopPc, termSent, killSent>>
              /\ emitted' = <<>>
        /\ (smCall' = "stopServer" /\ stopPc = "idle"
              /\ smCall \in {"stopServer", "stopWaitExit", "stopTimeout2"})
           => serverState' = "Stopped"
        /\ termSent' <= 1
        /\ killSent' <= 1 ]_vars

C3_Witness ==
    /\ smCall = "stopServer" /\ prevState = "Stopped"
    /\ serverState = "Stopped" /\ termSent = 1 /\ killSent = 1

\* C4: every stopServer() entered in Starting, Running or Error returns with
\* the state Stopped, the health timer stopped and the process handle
\* released, whether the worker exits in the first wait, in the second or in
\* neither; and a wait of stopServer() always ends.
C4_StopAlwaysCompletes ==
    /\ [][ (stopPc' = "idle" /\ \/ smCall' \in {"stopWaitExit", "stopTimeout2"}
                                \/ /\ smCall' = "stopServer"
                                   /\ stopPc = "idle"
                                   /\ serverState \in
                                        {"Starting", "Running", "Error"})
           => /\ serverState' = "Stopped"
              /\ ~healthTimer'
              /\ serverProcess' = "null" ]_vars
    /\ (stopPc # "idle" ~> stopPc = "idle")

C4_Witness ==
    /\ smCall = "stopTimeout2" /\ serverState = "Stopped"
    /\ serverProcess = "null" /\ killSent = 1

\* C5: between setState(Stopping) and setState(Stopped) in stopServer() no
\* process event sets the state to Error or emits serverError.
C5_NoErrorWhileStopping ==
    smCall \in {"stopWaitExit", "stopTimeout1", "stopTimeout2"}
       => ~Has(emitted, "serverError") /\ ~HasError(emitted)

\* C6: currentState changes only along the edges of the supervisor's state
\* machine; in particular nothing moves it from Stopping or Stopped to Error.
AllowedEdges ==
    { <<"Stopped", "Starting">>, <<"Error", "Starting">>,
      <<"Starting", "Running">>, <<"Starting", "Error">>,
      <<"Running", "Error">>,
      <<"Starting", "Stopping">>, <<"Running", "Stopping">>,
      <<"Error", "Stopping">>, <<"Stopping", "Stopped">> }

C6_OnlyAllowedTransitions ==
    \A i \in 1..(Len(StateTrail) - 1) :
        <<StateTrail[i], StateTrail[i + 1]>> \in AllowedEdges

\* C7: the failed probe reply that brings the number of failures handled in
\* Starting to maxRetries sets the state to Error, emits serverError with a
\* non-empty message and stops the health timer; no probe is issued while
\* the state is Error.
C7_RetriesExhausted ==
    [][ /\ (smCall' = "replyFail" /\ serverState = "Starting"
              /\ failedStarting' >= maxRetries)
           => /\ serverState' = "Error"
              /\ \E i \in 1..Len(emitted') :
                    emitted'[i].sig = "serverError" /\ emitted'[i].arg # ""
              /\ ~healthTimer'
        /\ serverState = "Error" => probes' <= probes ]_vars

C7_Witness ==
    /\ smCall = "replyFail" /\ prevState = "Starting"
    /\ failedStarting = maxRetries /\ serverState = "Error"

\* C8: a successful probe reply handled in Starting sets the state to
\* Running and emits serverReady; serverReady is emitted by no other step,
\* hence at most once per launch.
C8_ReadyOncePerStart ==
    [][ /\ (smCall' = "replyOk" /\ serverState = "Starting")
           => serverState' = "Running" /\ Has(emitted', "serverReady")
        /\ (emitted' # emitted /\ Has(emitted', "serverReady"))
           => /\ smCall' = "replyOk"
              /\ serverState = "Starting"
              /\ serverState' = "Running"
        /\ readyCount' <= 1 ]_vars

C8_Witness ==
    /\ smCall = "replyOk" /\ prevState = "Starting"
    /\ serverState = "Running" /\ readyCount = 1

\* C9: while the state is Running the health timer stays armed.
C9_ProbingContinuesWhileRunning ==
    serverState = "Running" => healthTimer

\* C10: when the worker exits while the state is Running, the state becomes
\* Error, serverError is emitted and retryCount keeps its value.
C10_CrashWhileRunning ==
    [][ (smCall' = "processExit" /\ serverState = "Running")
        => /\ serverState' = "Error"
           /\ Has(emitted', "serverError")
           /\ retryCount' = retryCount ]_vars

C10_Witness ==
    /\ smCall = "processExit" /\ prevState = "Running"
    /\ serverState = "Error" /\ retryCount > 0

\* C11: startServer() called in Starting or Running changes nothing and
\* emits nothing; called in Stopped or Error it sets retryCount to 0 and
\* announces Starting before anything the launch attempt reports.
C11_StartIdempotent ==
    [][ /\ (smCall' = "startServer" /\ serverState \in {"Starting", "Running"})
           => /\ UNCHANGED <<serverState, retryCount, serverProcess,
                             healthTimer, probes, stopPc>>
              /\ emitted' = <<>>
        /\ (smCall' = "startServer" /\ serverState \in {"Stopped", "Error"})
           => /\ retryCount' = 0
              /\ Len(emitted') >= 1
              /\ emitted'[1] = Sig("stateChanged", "Starting")
              /\ serverState' \in {"Starting", "Error"}
              /\ serverState' = "Starting" <=> serverProcess' = "Running" ]_vars

\* a restart from Error that launched the worker
C11_Witness ==
    /\ smCall = "startServer" /\ prevState = "Error"
    /\ serverState = "Starting" /\ retryCount = 0
    /\ failedStarting = 0 /\ serverProcess = "Running"

\* C12: a startServer() whose launch fails ends in Error, emits serverError
\* with the start-failure message, and neither arms the health timer nor
\* issues a probe.
C12_LaunchFailure ==
    [][ (smCall' = "startServer" /\ serverState \in {"Stopped", "Error"}
           /\ serverProcess' # "Running")
        => /\ serverState' = "Error"
           /\ \E i \in 1..Len(emitted') :
                 emitted'[i] = Sig("serverError",
                                   "Failed to start server process")
           /\ ~healthTimer'
           /\ probes' = probes ]_vars

C12_Witness ==
    /\ smCall = "startServer" /\ prevState = "Stopped"
    /\ serverState = "Error" /\ serverProcess = "NotRunning"
    /\ ~healthTimer /\ Has(emitted, "serverError")
\* C34: a stopServer() that passes its guard stops the health timer and
\* sends terminate exactly when the worker process is starting or running,
\* and no kill; kill is sent only when the first wait has timed out, after
\* the terminate and to a process that has not exited; the timer stays
\* stopped for the whole of stopServer().
C34_StopOrder ==
    /\ [][ /\ (smCall' = "stopServer"
               /\ serverState \notin {"Stopped", "Stopping"})
              => /\ ~healthTimer'
                 /\ killSent' = killSent
                 /\ IF serverProcess \in {"Starting", "Running"}
                    THEN termSent' = termSent + 1
                    ELSE termSent' = termSent
           /\ killSent' > killSent
              => /\ smCall' = "stopTimeout1"
                 /\ stopPc = "wait1"
                 /\ termSent = 1
                 /\ killSent = 0
                 /\ serverProcess \in {"Starting", "Running"}
           /\ termSent' > termSent
              => /\ smCall' = "stopServer"
                 /\ killSent = 0 ]_vars
    /\ [](stopPc # "idle" => ~healthTimer /\ termSent = 1)

\* the first wait timed out and kill followed the terminate
C34_Witness ==
    /\ smCall = "stopTimeout1"
    /\ stopPc = "wait2"
    /\ termSent = 1
    /\ killSent = 1
    /\ ~healthTimer
    /\ serverState = "Stopping"

\* C38: no step emits serverError more than once, and a step in which the
\* worker fails (failed launch, crash or unexpected exit, retries
\* exhausted) emits it exactly once.
C38_OneErrorPerFailure ==
    /\ Len(SelectSeq(emitted, LAMBDA e : e.sig = "serverError")) <= 1
    /\ (HasError(emitted) \/ smCall = "processExit")
          => Len(SelectSeq(emitted, LAMBDA e : e.sig = "serverError")) = 1

\* C39: in cleanupAndExit stateChanged(Stopped) is emitted only once the
\* lambda is connected (the loop is running), and when the worker has
\* stopped the loop is ended by that notification, not by the timeout.
C39_ExitWaitsForStopped ==
    [][ /\ (exitPc' # "none" /\ EmitsStopped(emitted')
                /\ emitted' # emitted)
              => exitPc = "waiting"
        /\ (exitPc = "waiting" /\ exitPc' = "done"
                /\ serverState = "Stopped")
              => loopEndedBy' = "stopped" ]_vars

(***************************************************************************)
(* Claims about ResourceCache                                              *)
(***************************************************************************)
\* C31: in every reachable state the cached images cost at most
\* maxCacheSizeMB MiB in total, each costing width*height*4, and the cached
\* animations cost at most 20 in total, each costing 1.
C31_WithinBudget ==
    /\ totalCost(imageCache) <= maxCacheSizeMB * MiB
    /\ \A i \in 1..Len(imageCache) :
          imageCache[i].cost = ImageCost(imageCache[i].key)
    /\ totalCost(animationCache) <= 20
    /\ \A i \in 1..Len(animationCache) : animationCache[i].cost = 1

\* an insertion has just evicted: the cache held 20 animations and a 21st
\* was loaded
C31_Witness ==
    /\ evictions > 0
    /\ Len(animationCache) = 20
    /\ animationCache[1].key = 21
    /\ 1 \notin keys(animationCache)

\* C32: a get of a cached key records exactly one hit and loads nothing; a
\* get of a key that is not cached records exactly one miss and leaves the
\* loaded asset in the cache, so that the next get of the key is a hit; a
\* preload changes neither counter.
C32_HitMiss ==
    [][ \A c \in Callers :
          /\ InBody(c, "getImage") =>
                IF contains(imageCache, asked')
                THEN /\ hitCount' = hitCount + 1
                     /\ missCount' = missCount
                     /\ keys(imageCache') = keys(imageCache)
                ELSE /\ missCount' = missCount + 1
                     /\ hitCount' = hitCount
                     /\ ~PixmapIsNull(asked') => contains(imageCache', asked')
          /\ InBody(c, "getAnimation") =>
                IF contains(animationCache, asked')
                THEN /\ hitCount' = hitCount + 1
                     /\ missCount' = missCount
                     /\ keys(animationCache') = keys(animationCache)
                ELSE /\ missCount' = missCount + 1
                     /\ hitCount' = hitCount
                     /\ MovieIsValid(asked') => contains(animationCache', asked')
          /\ (InBody(c, "preloadImage") \/ InBody(c, "preloadAnimation")) =>
                /\ hitCount' = hitCount
                /\ missCount' = missCount ]_vars

\* C35: every access of the caches and of the counters by a public
\* operation is made holding cacheMutex, and no caller locks cacheMutex
\* while it holds it.
C35_MutexGuardsAll ==
    /\ ~unguarded
    /\ ~relocked

====
